---- MODULE Spec2Model ----
(***************************************************************************)
(* Route handlers of the REST backend: flavor.js, ingredient.js, the       *)
(* ingredients router and the ingredient categories router.  Every handler *)
(* reads the validation result, issues one Data Access Facade operation    *)
(* and shapes the response (200 / 204 / 400 / 500).                        *)
(*                                                                         *)
(* Raw request values are strings, modelled as sequences of one-character  *)
(* strings so that the validators (isNumeric, isInt, isDecimal) and the    *)
(* sanitizer (toInt) are computed character by character.                  *)
(***************************************************************************)
EXTENDS Integers, Sequences, FiniteSets, TLC

(* ---- bounds ---------------------------------------------------------- *)
\* largest row count / array length / numeric result the facade returns
MaxRows == 3
\* number of requests that can be in flight at once (SpecInterleaved)
MaxInFlight == 2

(* ---- JavaScript values ----------------------------------------------- *)
Undef == [t |-> "undef", v |-> 0]
Null == [t |-> "null", v |-> 0]
NaN == [t |-> "nan", v |-> 0]
Num(n) == [t |-> "num", v |-> n]
\* an array of n rows
Arr(n) == [t |-> "arr", v |-> n]
\* a model instance (entity) with primary key n
Obj(n) == [t |-> "obj", v |-> n]

\* !v
Falsy(v) == v.t \in {"undef", "null", "nan"} \/ (v.t = "num" /\ v.v = 0)
\* a || d
JsOr(a, d) == IF Falsy(a) THEN d ELSE a
\* v - 1 (ToNumber(undefined) is NaN, ToNumber(null) is 0)
JsMinusOne(v) ==
  CASE v.t = "num" -> Num(v.v - 1)
    [] v.t = "null" -> Num(-1)
    [] OTHER -> NaN
\* Array.isArray(v)
IsArray(v) == v.t = "arr"
\* v.length is a number only on arrays; on null and undefined it throws
HasNoProperties(v) == v.t \in {"undef", "null"}
LengthIsZero(v) == v.t = "arr" /\ v.v = 0

(* ---- raw request values ---------------------------------------------- *)
Absent == [present |-> FALSE, s |-> <<>>]
Raw(s) == [present |-> TRUE, s |-> s]

Digits == {"0", "1", "2", "3", "4", "5", "6", "7", "8", "9"}
DigitVal(c) ==
  CASE c = "0" -> 0 [] c = "1" -> 1 [] c = "2" -> 2 [] c = "3" -> 3
    [] c = "4" -> 4 [] c = "5" -> 5 [] c = "6" -> 6 [] c = "7" -> 7
    [] c = "8" -> 8 [] c = "9" -> 9

AllDigits(s) == \A i \in 1..Len(s) : s[i] \in Digits
Signed(s) == Len(s) > 0 /\ s[1] \in {"+", "-"}
Unsigned(s) == IF Signed(s) THEN Tail(s) ELSE s

\* validator.js isNumeric: ^[+-]?([0-9]*[.])?[0-9]+$
IsNumericStr(s) ==
  LET b == Unsigned(s)
  IN \/ Len(b) >= 1 /\ AllDigits(b)
     \/ \E k \in 1..Len(b) :
          /\ b[k] = "."
          /\ AllDigits(SubSeq(b, 1, k - 1))
          /\ k < Len(b)
          /\ AllDigits(SubSeq(b, k + 1, Len(b)))

\* length of the longest prefix of digits
RECURSIVE DigitPrefix(_)
DigitPrefix(s) ==
  IF Len(s) = 0 \/ s[1] \notin Digits THEN 0 ELSE 1 + DigitPrefix(Tail(s))

RECURSIVE DigitsValue(_, _)
DigitsValue(s, acc) ==
  IF Len(s) = 0 THEN acc ELSE DigitsValue(Tail(s), acc * 10 + DigitVal(s[1]))

\* parseInt(s, 10): optional sign, then the longest run of digits; NaN if none
ParseInt(s) ==
  LET b == Unsigned(s)
      n == DigitPrefix(b)
      m == DigitsValue(SubSeq(b, 1, n), 0)
  IN IF n = 0 THEN NaN
     ELSE IF Len(s) > 0 /\ s[1] = "-" THEN Num(0 - m) ELSE Num(m)

\* validator.js isInt with { min: 1 }: ^[-+]?(0|[1-9][0-9]*)$ and value >= 1
IsIntMin1Str(s) ==
  LET b == Unsigned(s)
  IN /\ Len(b) >= 1
     /\ AllDigits(b)
     /\ (b[1] = "0" => Len(b) = 1)
     /\ ParseInt(s).v >= 1

\* validator.js isDecimal: ^[-+]?([0-9]+)?(\.[0-9]{1,})?$ and not '', '+', '-'
IsDecimalStr(s) ==
  LET b == Unsigned(s)
  IN /\ Len(b) >= 1
     /\ \/ AllDigits(b)
        \/ \E k \in 1..Len(b) :
             /\ b[k] = "."
             /\ AllDigits(SubSeq(b, 1, k - 1))
             /\ k < Len(b)
             /\ AllDigits(SubSeq(b, k + 1, Len(b)))

(* ---- field rules (express-validator chains) -------------------------- *)
FieldNames ==
  {"id", "flavorId", "dataSupplierId", "vendorId", "name", "slug", "density",
   "identifier", "offset", "limit"}

\* param(name).isNumeric().isInt({ min: 1 }).toInt()
IntParam(name) ==
  [loc |-> "params", name |-> name, optional |-> FALSE,
   checks |-> <<"isNumeric", "isInt">>, toInt |-> TRUE]
\* body(name).isNumeric().isInt({ min: 1 }).toInt()
IntBody(name) ==
  [loc |-> "body", name |-> name, optional |-> FALSE,
   checks |-> <<"isNumeric", "isInt">>, toInt |-> TRUE]
\* body(name).isString().isLength({ min: 1 }).withMessage('length')
StrBody(name) ==
  [loc |-> "body", name |-> name, optional |-> FALSE,
   checks |-> <<"isString", "isLength">>, toInt |-> FALSE]
\* body(name).isDecimal()
DecBody(name) ==
  [loc |-> "body", name |-> name, optional |-> FALSE,
   checks |-> <<"isDecimal">>, toInt |-> FALSE]
\* query(name).optional().isNumeric().toInt()
OptQuery(name) ==
  [loc |-> "query", name |-> name, optional |-> TRUE,
   checks |-> <<"isNumeric">>, toInt |-> TRUE]

\* validators see the value converted to a string; undefined becomes ''
AsString(raw) == IF raw.present THEN raw.s ELSE <<>>

CheckPasses(check, raw) ==
  CASE check = "isNumeric" -> IsNumericStr(AsString(raw))
    [] check = "isInt" -> IsIntMin1Str(AsString(raw))
    [] check = "isString" -> raw.present
    [] check = "isLength" -> Len(AsString(raw)) >= 1
    [] check = "isDecimal" -> IsDecimalStr(AsString(raw))

Message(check) == IF check = "isLength" THEN "length" ELSE "Invalid value"

\* the error descriptors one chain records, in chain order
RuleErrors(rule, raw) ==
  IF rule.optional /\ ~raw.present THEN <<>>
  ELSE LET failing == SelectSeq(rule.checks, LAMBDA k : ~CheckPasses(k, raw))
       IN [i \in 1..Len(failing) |->
             [param |-> rule.name, location |-> rule.loc,
              msg |-> Message(failing[i])]]

\* validationResult(req).array(): the chains' errors in declaration order
RECURSIVE ValidationErrors(_, _)
ValidationErrors(rules, fields) ==
  IF Len(rules) = 0 THEN <<>>
  ELSE RuleErrors(rules[1], fields[rules[1].name])
         \o ValidationErrors(Tail(rules), fields)

\* the value the handler reads after the sanitizers ran
Coerced(rule, raw) ==
  IF ~raw.present THEN Undef
  ELSE IF rule.toInt THEN ParseInt(raw.s)
  ELSE [t |-> "str", v |-> Len(raw.s)]

(* ---- route handlers --------------------------------------------------- *)
(* A handler is described by its validation chains, the facade operation   *)
(* it awaits, whether it paginates, and the test it applies to the result  *)
(* before answering 204:                                                   *)
(*   "falsy"          if (!result)                                         *)
(*   "notArrayOrZero" if (!Array.isArray(result) || result.length === 0)   *)
(*   "lengthZero"     if (result.length === 0)                             *)
(*   "falsyOrZero"    if (!result || result.length === 0)                  *)
(*   "none"           no test                                              *)
(***************************************************************************)
FlavorGet ==
  [route |-> "GET /flavor/:id", rules |-> <<IntParam("id")>>,
   entity |-> "Flavor", op |-> "findOne", paged |-> FALSE, empty |-> "falsy"]
FlavorCreate ==
  [route |-> "POST /flavor",
   rules |-> <<IntBody("vendorId"), StrBody("name"), StrBody("slug"),
               DecBody("density")>>,
   entity |-> "Flavor", op |-> "create", paged |-> FALSE,
   empty |-> "lengthZero"]
FlavorUpdate ==
  [route |-> "PUT /flavor/:id",
   rules |-> <<IntParam("id"), IntBody("vendorId"), StrBody("name"),
               StrBody("slug"), DecBody("density")>>,
   entity |-> "Flavor", op |-> "update", paged |-> FALSE,
   empty |-> "lengthZero"]
FlavorDelete ==
  [route |-> "DELETE /flavor/:id", rules |-> <<IntParam("id")>>,
   entity |-> "Flavor", op |-> "destroy", paged |-> FALSE,
   empty |-> "lengthZero"]
FlavorIdentifiers ==
  [route |-> "GET /flavor/:flavorId/identifiers",
   rules |-> <<IntParam("flavorId")>>,
   entity |-> "FlavorIdentifier", op |-> "findAll", paged |-> FALSE,
   empty |-> "notArrayOrZero"]
FlavorIdentifierGet ==
  [route |-> "GET /flavor/:flavorId/identifier/:dataSupplierId",
   rules |-> <<IntParam("flavorId"), IntParam("dataSupplierId")>>,
   entity |-> "FlavorIdentifier", op |-> "findOne", paged |-> FALSE,
   empty |-> "falsy"]
FlavorIdentifierCreate ==
  [route |-> "POST /flavor/:flavorId/identifier",
   rules |-> <<IntParam("flavorId"), IntBody("dataSupplierId"),
               StrBody("identifier")>>,
   entity |-> "FlavorIdentifier", op |-> "create", paged |-> FALSE,
   empty |-> "lengthZero"]
FlavorIdentifierUpdate ==
  [route |-> "PUT /flavor/:flavorId/identifier/:dataSupplierId",
   rules |-> <<IntParam("flavorId"), IntParam("dataSupplierId"),
               StrBody("identifier")>>,
   entity |-> "FlavorIdentifier", op |-> "update", paged |-> FALSE,
   empty |-> "lengthZero"]
FlavorIdentifierDelete ==
  [route |-> "DELETE /flavor/:flavorId/identifier/:dataSupplierId",
   rules |-> <<IntParam("flavorId"), IntParam("dataSupplierId")>>,
   entity |-> "FlavorIdentifier", op |-> "destroy", paged |-> FALSE,
   empty |-> "falsyOrZero"]
FlavorNotes ==
  [route |-> "GET /flavor/:flavorId/notes",
   rules |-> <<IntParam("flavorId")>>,
   entity |-> "UserFlavorNote", op |-> "findAll", paged |-> FALSE,
   empty |-> "notArrayOrZero"]
IngredientGet ==
  [route |-> "GET /ingredient/:id", rules |-> <<IntParam("id")>>,
   entity |-> "Ingredient", op |-> "findOne", paged |-> FALSE,
   empty |-> "falsy"]
IngredientsList ==
  [route |-> "GET /ingredients",
   rules |-> <<OptQuery("offset"), OptQuery("limit")>>,
   entity |-> "Ingredient", op |-> "findAll", paged |-> TRUE,
   empty |-> "notArrayOrZero"]
\* a count handler that applies the empty-result rule
IngredientsCountEmptyRule ==
  [route |-> "GET /ingredients/count", rules |-> <<>>,
   entity |-> "Ingredient", op |-> "count", paged |-> FALSE,
   empty |-> "falsy"]
IngredientsCount ==
  [route |-> "GET /ingredients/count", rules |-> <<>>,
   entity |-> "Ingredient", op |-> "count", paged |-> FALSE,
   empty |-> "none"]
IngredientCategoriesList ==
  [route |-> "GET /ingredient-categories",
   rules |-> <<OptQuery("offset"), OptQuery("limit")>>,
   entity |-> "IngredientCategory", op |-> "findAll", paged |-> TRUE,
   empty |-> "notArrayOrZero"]
IngredientCategoriesCount ==
  [route |-> "GET /ingredient-categories/count", rules |-> <<>>,
   entity |-> "IngredientCategory", op |-> "count", paged |-> FALSE,
   empty |-> "none"]
\* the preparations router: listed and paginated like the ingredients router
PreparationsList ==
  [route |-> "GET /preparations",
   rules |-> <<OptQuery("offset"), OptQuery("limit")>>,
   entity |-> "Preparation", op |-> "findAll", paged |-> TRUE,
   empty |-> "notArrayOrZero"]

Handlers ==
  {FlavorGet, FlavorCreate, FlavorUpdate, FlavorDelete, FlavorIdentifiers,
   FlavorIdentifierGet, FlavorIdentifierCreate, FlavorIdentifierUpdate,
   FlavorIdentifierDelete, FlavorNotes, IngredientGet, IngredientsList,
   IngredientsCount, IngredientCategoriesList, IngredientCategoriesCount,
   PreparationsList}

Routes == {h.route : h \in Handlers}
Handler(route) == CHOOSE h \in Handlers : h.route = route

(* ---- requests --------------------------------------------------------- *)
Ham == <<"h", "a", "m">>
Stop == <<"s", "t", "o", "p">>

\* the raw values a field is drawn from, by the chain that guards it
TokensOf(rule) ==
  CASE rule.optional /\ rule.name = "offset" ->
         {Absent, Raw(<<>>), Raw(Ham), Raw(<<"0">>), Raw(<<"1">>),
          Raw(<<"9">>), Raw(<<"-", "1">>), Raw(<<".", "5">>)}
    [] rule.optional /\ rule.name # "offset" ->
         {Absent, Raw(<<>>), Raw(Stop), Raw(<<"0">>), Raw(<<"1">>),
          Raw(<<"2">>), Raw(<<"-", "1">>), Raw(<<".", "5">>)}
    [] ~rule.optional /\ rule.toInt /\ rule.loc = "params" ->
         {Raw(Ham), Raw(<<"0">>), Raw(<<"7">>), Raw(<<"1", ".", "5">>)}
    [] ~rule.optional /\ rule.toInt /\ rule.loc # "params" ->
         {Absent, Raw(Ham), Raw(<<"0">>), Raw(<<"7">>)}
    [] ~rule.toInt /\ rule.checks[1] = "isString" ->
         {Absent, Raw(<<>>), Raw(<<"x">>)}
    [] ~rule.toInt /\ rule.checks[1] # "isString" ->
         {Absent, Raw(<<"x">>), Raw(<<"1", ".", "5">>)}

NoFields == [f \in FieldNames |-> Absent]

RECURSIVE FieldAssignments(_)
FieldAssignments(rules) ==
  IF Len(rules) = 0 THEN {NoFields}
  ELSE {[a EXCEPT ![rules[1].name] = t] :
          a \in FieldAssignments(Tail(rules)), t \in TokensOf(rules[1])}

Requests ==
  UNION {{[route |-> h.route, fields |-> a] : a \in FieldAssignments(h.rules)} :
           h \in Handlers}

\* one well-formed and one malformed request per route
WellFormed(rule) ==
  CASE rule.optional -> Raw(<<"2">>)
    [] ~rule.optional /\ rule.toInt -> Raw(<<"7">>)
    [] ~rule.optional /\ ~rule.toInt /\ rule.checks[1] = "isString" ->
         Raw(<<"x">>)
    [] OTHER -> Raw(<<"1", ".", "5">>)

SampleFields(h, ok) ==
  [f \in FieldNames |->
     IF \E i \in 1..Len(h.rules) : h.rules[i].name = f
     THEN LET rule == h.rules[CHOOSE i \in 1..Len(h.rules) :
                                h.rules[i].name = f]
          IN IF ok THEN WellFormed(rule) ELSE Raw(Ham)
     ELSE Absent]

SampleRequests ==
  {[route |-> h.route, fields |-> SampleFields(h, ok)] :
     h \in Handlers, ok \in BOOLEAN}

NoRequest == [route |-> "", fields |-> NoFields]

(* ---- the Data Access Facade ------------------------------------------- *)
FaultMessages == {"connection lost", "constraint violated"}
Fault(m) == [kind |-> "fault", val |-> Undef, msg |-> m]
Value(v) == [kind |-> "value", val |-> v, msg |-> ""]
NoOutcome == [kind |-> "none", val |-> Undef, msg |-> ""]

\* what an operation resolves with: an entity or null for findOne, an array
\* for findAll, a number for count, the number of rows destroyed for destroy,
\* an entity or an array for create and update
FacadeResults(op) ==
  CASE op = "findOne" -> {Null, Obj(1), Obj(2)}
    [] op = "findAll" -> {Null} \cup {Arr(n) : n \in 0..MaxRows}
    [] op = "count" -> {Num(n) : n \in 0..MaxRows}
    [] op = "destroy" -> {Null, Undef} \cup {Num(n) : n \in 0..MaxRows}
    [] OTHER -> {Null, Undef, Obj(1)} \cup {Arr(n) : n \in 0..MaxRows}

\* an operation resolves with a result or rejects with a fault
FacadeOutcomes(op) ==
  {Fault(m) : m \in FaultMessages} \cup {Value(v) : v \in FacadeResults(op)}

SampleOutcomes(op) ==
  {Fault("connection lost"),
   Value(IF op = "findOne" THEN Obj(1)
         ELSE IF op = "count" THEN Num(0)
         ELSE IF op = "destroy" THEN Null ELSE Arr(1))}

(* ---- state ------------------------------------------------------------ *)
Slots == 1..MaxInFlight

VARIABLES
  req,      \* req[c]: the request being handled on connection c
  pc,       \* pc[c]: "idle", "awaiting" (suspended on the facade) or "done"
  calls,    \* calls[c]: the facade operations issued for the request
  outcome,  \* outcome[c]: what the awaited facade operation settled with
  log,      \* log[c]: the logger calls made for the request
  res       \* res[c]: the responses written for the request

vars == <<req, pc, calls, outcome, log, res>>

(* ---- the handler body -------------------------------------------------- *)
DefaultLimit == 20

\* const limit = req.query.limit || 20
Limit(fields) ==
  JsOr(Coerced(OptQuery("limit"), fields["limit"]), Num(DefaultLimit))

\* const offset = req.query.offset - 1 || 0
Offset(fields) ==
  JsOr(JsMinusOne(Coerced(OptQuery("offset"), fields["offset"])), Num(0))

\* the facade operation of a handler, with its pagination arguments
Call(h, fields) ==
  [op |-> h.op, entity |-> h.entity,
   limit |-> IF h.paged THEN Limit(fields) ELSE Undef,
   offset |-> IF h.paged THEN Offset(fields) ELSE Undef]

\* a handler whose validation branch does not return
FacadeCallsNoReturn(h, errs, fields) == <<Call(h, fields)>>

\* if (!errors.isEmpty()) return ...; otherwise the one awaited operation
FacadeCalls(h, errs, fields) ==
  IF errs # <<>> THEN <<>> ELSE <<Call(h, fields)>>

NoBody == [kind |-> "none", json |-> Undef, errors |-> <<>>, text |-> ""]

\* res.status(400).json({ errors: errors.array() })
BadRequest(errs) ==
  [status |-> 400, body |-> [NoBody EXCEPT !.kind = "errors", !.errors = errs]]
\* res.status(204).end()
NoContent == [status |-> 204, body |-> NoBody]
\* res.type('application/json'); res.json(result)
Ok(result) ==
  [status |-> 200, body |-> [NoBody EXCEPT !.kind = "json", !.json = result]]
\* res.status(500).send(error.message)
ServerError(m) ==
  [status |-> 500, body |-> [NoBody EXCEPT !.kind = "text", !.text = m]]

\* reading .length of null or undefined throws inside the try block
TypeErrorMessage == "Cannot read property 'length' of null"
Throws(test, v) == test = "lengthZero" /\ HasNoProperties(v)

\* a list test that forgets the length check
IsEmptyNoLength(test, v) ==
  CASE test = "falsy" -> Falsy(v)
    [] test = "notArrayOrZero" -> ~IsArray(v)
    [] test = "lengthZero" -> LengthIsZero(v)
    [] test = "falsyOrZero" -> Falsy(v) \/ LengthIsZero(v)
    [] OTHER -> FALSE

\* the test that answers 204
IsEmpty(test, v) ==
  CASE test = "falsy" -> Falsy(v)
    [] test = "notArrayOrZero" -> ~IsArray(v) \/ LengthIsZero(v)
    [] test = "lengthZero" -> LengthIsZero(v)
    [] test = "falsyOrZero" -> Falsy(v) \/ LengthIsZero(v)
    [] OTHER -> FALSE

\* a catch block that hides the message from the client
CaughtGeneric(m) ==
  [res |-> ServerError("Internal Server Error"),
   logged |-> <<[level |-> "error", msg |-> m]>>]

\* catch (error) { log.error(error.message); res.status(500).send(...) }
Caught(m) == [res |-> ServerError(m), logged |-> <<[level |-> "error", msg |-> m]>>]

\* a catch block that issues the operation again
ReissuedOnFault(issued, o) ==
  IF o.kind = "fault" THEN issued \o issued ELSE issued

\* the catch block answers and returns: nothing is issued a second time
Reissued(issued, o) == issued

\* the rest of the try block once the awaited operation has settled
Shape(h, o) ==
  IF o.kind = "fault" THEN Caught(o.msg)
  ELSE IF Throws(h.empty, o.val) THEN Caught(TypeErrorMessage)
  ELSE IF IsEmpty(h.empty, o.val) THEN [res |-> NoContent, logged |-> <<>>]
  ELSE [res |-> Ok(o.val), logged |-> <<>>]

(* ---- actions ----------------------------------------------------------- *)
Init ==
  /\ req = [c \in Slots |-> NoRequest]
  /\ pc = [c \in Slots |-> "idle"]
  /\ calls = [c \in Slots |-> <<>>]
  /\ outcome = [c \in Slots |-> NoOutcome]
  /\ log = [c \in Slots |-> <<>>]
  /\ res = [c \in Slots |-> <<>>]

\* a request reaches its handler, which runs up to its await or returns 400
Handle(c, r) ==
  /\ pc[c] = "idle"
  /\ LET h == Handler(r.route)
         errs == ValidationErrors(h.rules, r.fields)
         issued == FacadeCalls(h, errs, r.fields)
     IN /\ req' = [req EXCEPT ![c] = r]
        /\ calls' = [calls EXCEPT ![c] = issued]
        /\ outcome' = [outcome EXCEPT ![c] = NoOutcome]
        /\ log' = [log EXCEPT ![c] =
                     IF errs # <<>> THEN <<>>
                     ELSE <<[level |-> "info", msg |-> h.route]>>]
        /\ res' = [res EXCEPT ![c] =
                     IF errs # <<>> THEN <<BadRequest(errs)>> ELSE <<>>]
        /\ pc' = [pc EXCEPT ![c] = IF errs # <<>> THEN "done" ELSE "awaiting"]

\* a handler whose result test sits outside the try block: the TypeError
\* escapes and the handler ends without answering
SettleUncaught(c, o) ==
  /\ pc[c] = "awaiting"
  /\ LET h == Handler(req[c].route)
         escapes == o.kind = "value" /\ Throws(h.empty, o.val)
         s == Shape(h, o)
     IN /\ outcome' = [outcome EXCEPT ![c] = o]
        /\ log' = [log EXCEPT ![c] = IF escapes THEN @ ELSE @ \o s.logged]
        /\ res' = [res EXCEPT ![c] = IF escapes THEN @ ELSE Append(@, s.res)]
        /\ calls' = [calls EXCEPT ![c] = Reissued(@, o)]
        /\ pc' = [pc EXCEPT ![c] = "done"]
  /\ UNCHANGED req

\* the awaited facade operation settles and the handler answers
Settle(c, o) ==
  /\ pc[c] = "awaiting"
  /\ LET s == Shape(Handler(req[c].route), o)
     IN /\ outcome' = [outcome EXCEPT ![c] = o]
        /\ log' = [log EXCEPT ![c] = @ \o s.logged]
        /\ res' = [res EXCEPT ![c] = Append(@, s.res)]
        /\ calls' = [calls EXCEPT ![c] = Reissued(@, o)]
        /\ pc' = [pc EXCEPT ![c] = "done"]
  /\ UNCHANGED req

\* the handler has returned and the response is sent: the connection is free
Finish(c) ==
  /\ pc[c] = "done"
  /\ req' = [req EXCEPT ![c] = NoRequest]
  /\ pc' = [pc EXCEPT ![c] = "idle"]
  /\ calls' = [calls EXCEPT ![c] = <<>>]
  /\ outcome' = [outcome EXCEPT ![c] = NoOutcome]
  /\ log' = [log EXCEPT ![c] = <<>>]
  /\ res' = [res EXCEPT ![c] = <<>>]

Serve(c) == \E r \in Requests : Handle(c, r)
Resolve(c) ==
  /\ pc[c] = "awaiting"
  /\ \E o \in FacadeOutcomes(Handler(req[c].route).op) : Settle(c, o)

Next == Serve(1) \/ Resolve(1) \/ Finish(1)

Spec == Init /\ [][Next]_vars

\* an awaited facade operation that settles resumes its handler: the event
\* loop runs the continuation of every settled await
SpecLive == Init /\ [][Next]_vars /\ WF_vars(Resolve(1))

ServeSample(c) == \E r \in SampleRequests : Handle(c, r)
ResolveSample(c) ==
  /\ pc[c] = "awaiting"
  /\ \E o \in SampleOutcomes(Handler(req[c].route).op) : Settle(c, o)

NextInterleaved ==
  \E c \in Slots : ServeSample(c) \/ ResolveSample(c) \/ Finish(c)

SpecInterleaved == Init /\ [][NextInterleaved]_vars

(* ---- properties -------------------------------------------------------- *)
Active(c) == pc[c] # "idle"
Done(c) == pc[c] = "done"
HandlerOf(c) == Handler(req[c].route)
PagedRoutes ==
  {"GET /ingredients", "GET /ingredient-categories", "GET /preparations"}
\* the paginated lists of the ingredients and ingredient categories routers
ListRoutes == {"GET /ingredients", "GET /ingredient-categories"}
Mutations == {"create", "update", "destroy"}
Min(a, b) == IF a < b THEN a ELSE b

\* a rule is met when every check of its chain passes; an optional rule is
\* also met by an absent value
RuleMet(rule, raw) ==
  \/ rule.optional /\ ~raw.present
  \/ \A i \in 1..Len(rule.checks) : CheckPasses(rule.checks[i], raw)

\* some declared field rule of the request on c is unmet
SomeRuleUnmet(c) ==
  \E i \in 1..Len(HandlerOf(c).rules) :
    ~RuleMet(HandlerOf(c).rules[i], req[c].fields[HandlerOf(c).rules[i].name])

\* a non-numeric value where a numeric path, query or body parameter is declared
NonNumericGiven(c) ==
  \E i \in 1..Len(HandlerOf(c).rules) :
    /\ HandlerOf(c).rules[i].toInt
    /\ req[c].fields[HandlerOf(c).rules[i].name] \in {Raw(Ham), Raw(Stop)}

C3_EmptyPageIs200 ==
  \A c \in Slots :
    (Done(c) /\ req[c].route \in ListRoutes
       /\ Len(calls[c]) = 1
       /\ calls[c][1].offset.t = "num" /\ calls[c][1].offset.v >= MaxRows
       /\ outcome[c] = Value(Arr(0))) =>
      /\ res[c][1].status = 200
      /\ res[c][1].body.json = Arr(0)

\* C4: GET /flavor/0 is answered 204.
C4_FlavorZeroIs204 ==
  \A c \in Slots :
    (Done(c) /\ req[c].route = "GET /flavor/:id"
       /\ req[c].fields["id"] = Raw(<<"0">>)) =>
      res[c][1].status = 204

\* the facade result of a mutation that affected no row: an empty collection,
\* or the number of affected rows being 0
AffectsNoRow(v) == v = Arr(0) \/ v = Num(0)
AffectsSomeRow(v) == v.t = "obj" \/ (v.t \in {"arr", "num"} /\ v.v >= 1)

\* C5: in each of the six mutation handlers, a facade call that resolved and
\* affected no row is answered 204 with an empty body, and one that affected
\* at least one row is answered 200 with a JSON body equal to the result.
C5_MutationShaping ==
  \A c \in Slots :
    (Done(c) /\ outcome[c].kind = "value" /\ HandlerOf(c).op \in Mutations) =>
      /\ AffectsNoRow(outcome[c].val) =>
           res[c][1].status = 204 /\ res[c][1].body.kind = "none"
      /\ AffectsSomeRow(outcome[c].val) =>
           /\ res[c][1].status = 200
           /\ res[c][1].body.kind = "json"
           /\ res[c][1].body.json = outcome[c].val

ErrorsLogged(c) == SelectSeq(log[c], LAMBDA e : e.level = "error")

\* C6: a fault raised by the facade operation is answered with exactly one
\* response, 500 with the fault's message as its text body, and the message
\* is the one thing passed to the error logger.
C6_FaultIs500 ==
  \A c \in Slots :
    (Done(c) /\ outcome[c].kind = "fault") =>
      /\ Len(res[c]) = 1
      /\ res[c][1].status = 500
      /\ res[c][1].body.kind = "text"
      /\ res[c][1].body.text = outcome[c].msg
      /\ ErrorsLogged(c) = <<[level |-> "error", msg |-> outcome[c].msg]>>

\* a faulted flavor update has been answered
C6_Witness ==
  /\ Done(1)
  /\ req[1].route = "PUT /flavor/:id"
  /\ outcome[1] = Fault("constraint violated")
  /\ res[1][1].status = 500

\* the coerced query value of a paginated request
QueryValue(c, name) == Coerced(OptQuery(name), req[c].fields[name])

\* C7: on a paginated list the limit passed to the facade is the query limit
\* when present and 20 when absent, and the skip count is query offset - 1,
\* or 0 when the query offset is absent or falsy (an explicit 0 included).
C7_Pagination ==
  \A c \in Slots :
    (Active(c) /\ req[c].route \in ListRoutes /\ Len(calls[c]) = 1) =>
      /\ calls[c][1].limit =
           IF req[c].fields["limit"].present THEN QueryValue(c, "limit")
           ELSE Num(20)
      /\ calls[c][1].offset =
           IF ~req[c].fields["offset"].present \/ Falsy(QueryValue(c, "offset"))
           THEN Num(0)
           ELSE Num(QueryValue(c, "offset").v - 1)

\* C8: on a paginated list with no offset, a numeric limit L below the number
\* of rows, and a facade that resolves with the first min(limit, rows) rows,
\* the answer is 200 with exactly L rows.
C8_LimitRows ==
  \A c \in Slots :
    \A rows \in 0..MaxRows :
      (Done(c) /\ req[c].route \in ListRoutes /\ Len(calls[c]) = 1
         /\ ~req[c].fields["offset"].present
         /\ req[c].fields["limit"].present
         /\ QueryValue(c, "limit").t = "num"
         /\ QueryValue(c, "limit").v < rows
         /\ calls[c][1].limit.t = "num"
         /\ outcome[c] = Value(Arr(Min(calls[c][1].limit.v, rows)))) =>
        /\ res[c][1].status = 200
        /\ res[c][1].body.json = Arr(QueryValue(c, "limit").v)

\* C9: a count handler whose facade call resolved answers 200 with a JSON body
\* equal to the count, a count of 0 included.
C9_CountIs200 ==
  \A c \in Slots :
    (Done(c) /\ outcome[c].kind = "value"
       /\ req[c].route \in {"GET /ingredients/count",
                            "GET /ingredient-categories/count"}) =>
      /\ Len(res[c]) = 1
      /\ res[c][1].status = 200
      /\ res[c][1].body.kind = "json"
      /\ res[c][1].body.json = outcome[c].val
      /\ outcome[c].val.t = "num"

\* a count of 0 has been answered
C9_Witness ==
  /\ Done(1)
  /\ req[1].route = "GET /ingredients/count"
  /\ outcome[1] = Value(Num(0))
  /\ res[1][1].status = 200

\* the facade operation and entity of each route (the route table)
RouteOp(route) ==
  CASE route \in {"GET /flavor/:id", "GET /ingredient/:id",
                  "GET /flavor/:flavorId/identifier/:dataSupplierId"} ->
         "findOne"
    [] route \in {"GET /flavor/:flavorId/identifiers",
                  "GET /flavor/:flavorId/notes"} \cup PagedRoutes -> "findAll"
    [] route \in {"GET /ingredients/count",
                  "GET /ingredient-categories/count"} -> "count"
    [] route \in {"POST /flavor", "POST /flavor/:flavorId/identifier"} ->
         "create"
    [] route \in {"PUT /flavor/:id",
                  "PUT /flavor/:flavorId/identifier/:dataSupplierId"} ->
         "update"
    [] route \in {"DELETE /flavor/:id",
                  "DELETE /flavor/:flavorId/identifier/:dataSupplierId"} ->
         "destroy"

\* C10: with requests interleaved, every request has at most one facade
\* operation issued for it: exactly one once its validation has passed, none
\* when it failed, still one after the operation faulted, and of the kind of
\* its route.
C10_OneOperation ==
  \A c \in Slots :
    Active(c) =>
      /\ Len(calls[c]) <= 1
      /\ SomeRuleUnmet(c) => calls[c] = <<>>
      /\ ~SomeRuleUnmet(c) => Len(calls[c]) = 1
      /\ \A i \in 1..Len(calls[c]) : calls[c][i].op = RouteOp(req[c].route)

\* a faulted request has been answered while another is still awaiting
C10_Witness ==
  /\ Done(1)
  /\ outcome[1].kind = "fault"
  /\ Len(calls[1]) = 1
  /\ pc[2] = "awaiting"
  /\ Len(calls[2]) = 1

Statuses == {200, 204, 400, 500}

\* C11: a request that reached its handler has no response while its facade
\* operation is awaited and exactly one once the handler is done, with status
\* 200, 204, 400 or 500; and once the facade operation settles (with a value,
\* null, undefined, an empty collection or a fault) the handler is eventually
\* done with that one response.
C11_ExactlyOneResponse ==
  /\ [](\A c \in Slots :
          /\ Len(res[c]) <= 1
          /\ pc[c] = "awaiting" => res[c] = <<>>
          /\ Done(c) => Len(res[c]) = 1 /\ res[c][1].status \in Statuses)
  /\ \A c \in Slots :
       (pc[c] = "awaiting") ~> (Done(c) /\ Len(res[c]) = 1)

\* a flavor create whose facade result was null has been answered
C11_Witness ==
  /\ Done(1)
  /\ req[1].route = "POST /flavor"
  /\ outcome[1] = Value(Null)
  /\ Len(res[1]) = 1
  /\ res[1][1].status = 500

====
